---- MODULE Spec2Model ----
(***************************************************************************)
(* Model of plot_spectrum.py: main() synthesises a 500-point mid-infrared  *)
(* spectrum (linear continuum + Gaussian line + seeded noise), wraps it,   *)
(* renders and decorates a figure, saves it and prints a confirmation.     *)
(*                                                                         *)
(* Numbers.  The script computes in binary64.  The model computes over the *)
(* rationals on fixed grids, so rounding in the last place is not          *)
(* represented:                                                            *)
(*   wavelengths  : numerators over WDen = n_points - 1      (exact)       *)
(*   flux values  : numerators over FDen = 50 * WDen         (continuum    *)
(*                  exact; line profile and noise rounded down to the grid)*)
(*   decimal literals (17.22, 0.15, 0.3, 0.02) : hundredths  (exact)       *)
(* Sequences are 1-based: element i+1 models array index i of the source.  *)
(***************************************************************************)
EXTENDS Integers, Sequences, FiniteSets

(* ----------------------------- literals ------------------------------- *)
wave_min == 10
wave_max == 30
n_points == 500
\* hundredths in one unit: the grid of the decimal literals
Cent == 10 * 10
\* continuum = 1.0 + 0.02 * (wavelength - 20.0)
cont_level == 1
cont_slope_c == 2
cont_pivot == 20
\* line_center = 17.22, line_width = 0.15, line_ampl = 0.3
line_center_c == 1722
line_width_c == 15
line_ampl_c == 30
\* noise = 0.02 * rng.standard_normal(n_points), seed 12345
noise_scale_c == 2
seed == 12345
\* annotation: xy = (line_center, max*0.9), xytext = (line_center + 1.0, max*0.95)
annot_xy_c == 90
annot_text_c == 95
annot_dx == 1

\* denominators of the two grids
WDen == n_points - 1
FDen == WDen * (Cent \div cont_slope_c)

Abs(x) == IF x < 0 THEN -x ELSE x

(* ------------------------- numpy.linspace ----------------------------- *)
\* np.linspace(start, stop, num): arange(num) * step + start with
\* step = (stop - start) / (num - 1), and the last sample set to stop.
\* Numerators over num - 1.
\* the same with endpoint=False: step = (stop - start) / num
LinspaceOpen(start, stop, num) ==
    [i \in 1..num |-> ((start * num + (i - 1) * (stop - start)) * (num - 1)) \div num]

Linspace(start, stop, num) ==
    [i \in 1..num |->
        IF i = num THEN stop * (num - 1)
        ELSE start * (num - 1) + (i - 1) * (stop - start)]

(* --------------------------- continuum -------------------------------- *)
\* 1.0 + 0.02 * (w - 20.0) at one sample; w over WDen, result over FDen.
\* the same with the parentheses lost: 1.0 + 0.02 * w - 20.0
ContinuumUnparenthesised(w) ==
    cont_level * FDen + (cont_slope_c * w * FDen) \div (Cent * WDen) - cont_pivot * FDen

ContinuumAt(w) ==
    cont_level * FDen
      + (cont_slope_c * (w - cont_pivot * WDen) * FDen) \div (Cent * WDen)

(* ------------------------------ exp ----------------------------------- *)
\* exp(-f) for 0 <= f <= 1, f and the result over FDen: the alternating
\* series 1 - f + f^2/2! - ... in Horner form, 12 terms.
RECURSIVE ExpHorner(_, _)
ExpHorner(f, k) ==
    IF k > 12 THEN FDen
    ELSE FDen - (f * ExpHorner(f, k + 1)) \div (k * FDen)

RECURSIVE ExpPow(_, _)
ExpPow(b, n) == IF n = 0 THEN FDen ELSE (b * ExpPow(b, n - 1)) \div FDen

\* exp(-t) for t >= 0 over FDen: exp(-1)^floor(t) * exp(-frac(t)).
ExpNeg(t) ==
    (ExpPow(ExpHorner(FDen, 1), t \div FDen) * ExpHorner(t % FDen, 1)) \div FDen

(* --------------------------- line profile ----------------------------- *)
\* (w - line_center), numerator over Cent * WDen
LineOffset(w) == Cent * w - line_center_c * WDen

\* line_ampl * exp(-(w - line_center)**2 / (2.0 * line_width**2)) at one
\* sample, over FDen.  With d = LineOffset(w) the exponent is
\* d^2 / (2 * line_width_c^2 * WDen^2); d is even, and with m = d / 2 the
\* exponent over FDen is m^2 * 4 * FDen / (2 * line_width_c^2 * WDen^2).
\* More than 6 line widths from the centre the profile is below 1.6e-8 * ampl,
\* under the grid's resolution, and is 0 there (that also keeps m^2 in range).
LineProfileAt(ampl_c, w) ==
    LET d == LineOffset(w)
        m == Abs(d) \div 2
    IN
    IF Abs(d) > 6 * line_width_c * WDen THEN 0
    ELSE LET t == (4 * m * m) \div ((2 * line_width_c * line_width_c * WDen * WDen) \div FDen)
         IN  (ampl_c * ExpNeg(t)) \div Cent

(* ------------------------ seeded generator ---------------------------- *)
\* Bounds of the model: runs of the script, seeds tried and file sizes.
MaxRuns == 2
NumSeeds == 2
MaxFileSize == 2

\* The seeds a run may be configured with: 12345 and the alternatives.
Seeds == {seed + k : k \in 0..(NumSeeds - 1)}

\* np.random.default_rng / Generator.standard_normal belong to the numeric
\* library.  What the script relies on is its contract: the stream is a
\* function of the seed alone, and distinct seeds give distinct streams.
\* Stream(k, .) are candidate draw sequences (hundredths of a standard
\* deviation); which seed gets which stream is fixed but unknown: gen is
\* chosen in Init among the cyclic assignments of the streams to the seeds.
Stream(k, i) == ((i * i * (2 * k + 1) + 17 * k * i + 101 * k) % 601) - 300
Gens == {[s \in Seeds |-> ((s - seed + k) % NumSeeds) + 1] : k \in 0..(NumSeeds - 1)}

\* rng.standard_normal(n) for the generator seeded with s
StandardNormal(g, s, n) == [i \in 1..n |-> Stream(g[s], i)]

\* the same unseeded, np.random.default_rng(): fresh entropy at every run
SeedFromEntropy(c, r) == seed + ((r - 1) % NumSeeds)

\* rng = np.random.default_rng(seed=12345): the seed is the configured
\* literal, whichever run r of the script this is
SeedOf(c, r) == c.seed

\* 0.02 * z at one sample; z in hundredths, result over FDen
NoiseAt(noise_c, z) == (noise_c * z * FDen) \div (Cent * Cent)

\* the same with the noise left out
FluxSumNoNoise(c, l, nz) == [i \in 1..Len(c) |-> c[i] + l[i]]

\* the same with the noise one sample out of step
FluxSumShifted(c, l, nz) == [i \in 1..Len(c) |-> c[i] + l[i] + nz[(i % Len(c)) + 1]]

\* flux = continuum + line_profile + noise
FluxSum(c, l, nz) == [i \in 1..Len(c) |-> c[i] + l[i] + nz[i]]

\* the flux at the sample nearest the line centre instead of the maximum
PeakAtCentre(d) ==
    d[((line_center_c - wave_min * Cent) * WDen
          + (Cent * (wave_max - wave_min)) \div 2) \div (Cent * (wave_max - wave_min)) + 1]

\* sp.data.max()
RECURSIVE MaxIn(_, _, _)
MaxIn(d, lo, hi) ==
    IF lo = hi THEN d[lo]
    ELSE LET mid == (lo + hi) \div 2
             a == MaxIn(d, lo, mid)
             b == MaxIn(d, mid + 1, hi)
         IN  IF b > a THEN b ELSE a
Peak(d) == MaxIn(d, 1, Len(d))

(* --------------------------- configuration ---------------------------- *)
\* The literals of the script as written.
AsIs == [seed |-> seed, ampl_c |-> line_ampl_c, noise_c |-> noise_scale_c]
\* The script as written, and its variants: another seed; noise set to zero;
\* noise and line set to zero.
Configs ==
    {[AsIs EXCEPT !.seed = s] : s \in Seeds}
      \cup {[AsIs EXCEPT !.noise_c = 0]}
      \cup {[AsIs EXCEPT !.noise_c = 0, !.ampl_c = 0]}

(* ------------------------------ program ------------------------------- *)
\* the same with the legend created before the vertical marker
ProgramLegendEarly ==
    <<"linspace", "flux", "spectrum", "plot", "labels", "title", "legend",
      "axvline", "annotate", "grid", "tight_layout", "savefig", "print">>

\* The statements of main() in program order.
Program ==
    <<"linspace", "flux", "spectrum", "plot", "labels", "title", "axvline",
      "annotate", "legend", "grid", "tight_layout", "savefig", "print">>

IndexOf(stage) == CHOOSE i \in 1..Len(Program) : Program[i] = stage
\* the statement after `stage`, or the return of main()
After(stage) ==
    IF IndexOf(stage) = Len(Program) THEN "return" ELSE Program[IndexOf(stage) + 1]
\* the same under a try/except that swallows the exception
Swallow(stage) ==
    IF IndexOf(stage) = Len(Program) THEN "return" ELSE Program[IndexOf(stage) + 1]

\* where control goes when the statement `stage` raises: main() has no
\* try/except, the exception leaves main() and the module
Propagate(stage) == "failed"

png_path == "water_line_spectrum.png"
ConfirmationLineNoName == <<"Figure", "saved">>
ConfirmationLine == <<"Figure", "saved", "as", "water_line_spectrum.png">>
spectrum_label == "Synthetic spectrum"
marker_label == "H2O rotational line (17.22 um)"

\* the labels of the labelled artists of the figure, as Axes.legend() collects them
Labelled(f) == {f[i].label : i \in {j \in 1..Len(f) : f[j].label # ""}}

VARIABLES
    pc,            \* the statement to run next, or "return", "done", "failed"
    run,           \* number of this run of the script
    cfg,           \* the literals of this run
    gen,           \* the library's seed -> stream map
    wavelength, continuum, line_profile, noise, flux,
    sp,            \* the pyspeckit Spectrum: <<>> or <<[data, xarr, ...]>>
    fig,           \* the calls made on the figure, in order
    files,         \* files written by this run
    stdout,        \* lines printed by this run
    stderr,        \* tracebacks printed by this run
    exit,          \* exit status, -1 while running
    trace,         \* statements completed by this run, in order
    failedAt,      \* the statement that raised, or "none"
    previous       \* <<>>, or what the last run that reached the flux synthesis left

arrays == <<wavelength, continuum, line_profile, noise, flux>>
io == <<files, stdout, stderr, exit>>
setup == <<run, cfg, gen, previous>>
vars == <<pc, run, cfg, gen, wavelength, continuum, line_profile, noise,
          flux, sp, fig, files, stdout, stderr, exit, trace, failedAt, previous>>

Fresh ==
    /\ pc = Program[1]
    /\ wavelength = <<>> /\ continuum = <<>> /\ line_profile = <<>>
    /\ noise = <<>> /\ flux = <<>>
    /\ sp = <<>> /\ fig = <<>>
    /\ files = {} /\ stdout = <<>> /\ stderr = <<>>
    /\ exit = -1 /\ trace = <<>> /\ failedAt = "none"

Init ==
    /\ Fresh
    /\ run = 1
    /\ cfg \in Configs
    /\ gen \in Gens
    /\ previous = <<>>

\* statement `stage` runs to completion
Step(stage) ==
    /\ pc = stage
    /\ pc' = After(stage)
    /\ trace' = Append(trace, stage)
    /\ UNCHANGED failedAt

\* wavelength = np.linspace(wave_min, wave_max, n_points)
AxisGen ==
    /\ Step("linspace")
    /\ wavelength' = Linspace(wave_min, wave_max, n_points)
    /\ UNCHANGED <<continuum, line_profile, noise, flux, sp, fig, io, setup>>

\* continuum, line_profile, rng, noise, flux
FluxSynth ==
    /\ Step("flux")
    /\ LET c == [i \in 1..Len(wavelength) |-> ContinuumAt(wavelength[i])]
           l == [i \in 1..Len(wavelength) |-> LineProfileAt(cfg.ampl_c, wavelength[i])]
           z == StandardNormal(gen, SeedOf(cfg, run), n_points)
           nz == [i \in 1..n_points |-> NoiseAt(cfg.noise_c, z[i])]
       IN  /\ continuum' = c
           /\ line_profile' = l
           /\ noise' = nz
           /\ flux' = FluxSum(c, l, nz)
    /\ UNCHANGED <<wavelength, sp, fig, io, setup>>

\* xaxis = SpectroscopicAxis(wavelength, unit='micron'); sp = pyspeckit.Spectrum(...)
Wrap ==
    /\ Step("spectrum")
    /\ sp' = <<[data |-> flux, xarr |-> wavelength, xunit |-> "micron"]>>
    /\ UNCHANGED <<arrays, fig, io, setup>>

\* fig = plt.figure(figsize=(10, 6)); sp.plotter(figure=fig, ..., label=...)
Plot ==
    /\ Step("plot")
    /\ fig' = Append(fig, [op |-> "plot", label |-> spectrum_label, at |-> <<>>])
    /\ UNCHANGED <<arrays, sp, io, setup>>

\* set_xlabel, set_ylabel
Labels ==
    /\ Step("labels")
    /\ fig' = Append(fig, [op |-> "labels", label |-> "", at |-> <<>>])
    /\ UNCHANGED <<arrays, sp, io, setup>>

\* set_title
Title ==
    /\ Step("title")
    /\ fig' = Append(fig, [op |-> "title", label |-> "", at |-> <<>>])
    /\ UNCHANGED <<arrays, sp, io, setup>>

\* axvline(line_center, ..., linestyle='--', label=...)
AxVLine ==
    /\ Step("axvline")
    /\ fig' = Append(fig, [op |-> "axvline", label |-> marker_label,
                           at |-> <<line_center_c>>])
    /\ UNCHANGED <<arrays, sp, io, setup>>

\* annotate(..., xy=(line_center, sp.data.max() * 0.9),
\*          xytext=(line_center + 1.0, sp.data.max() * 0.95))
\* x in hundredths, y over Cent * FDen
Annotate ==
    /\ Step("annotate")
    /\ fig' = Append(fig,
          [op |-> "annotate", label |-> "",
           at |-> <<line_center_c, annot_xy_c * Peak(sp[1].data),
                    line_center_c + annot_dx * Cent, annot_text_c * Peak(sp[1].data)>>])
    /\ UNCHANGED <<arrays, sp, io, setup>>

\* legend(loc='upper right'): one entry per labelled artist drawn so far
Legend ==
    /\ Step("legend")
    /\ fig' = Append(fig, [op |-> "legend", label |-> "", at |-> Labelled(fig)])
    /\ UNCHANGED <<arrays, sp, io, setup>>

\* grid(True, alpha=0.3)
Grid ==
    /\ Step("grid")
    /\ fig' = Append(fig, [op |-> "grid", label |-> "", at |-> <<>>])
    /\ UNCHANGED <<arrays, sp, io, setup>>

\* plt.tight_layout()
TightLayout ==
    /\ Step("tight_layout")
    /\ fig' = Append(fig, [op |-> "tight_layout", label |-> "", at |-> <<>>])
    /\ UNCHANGED <<arrays, sp, io, setup>>

\* plt.savefig('water_line_spectrum.png', dpi=150): a PNG is never empty
SaveFig ==
    /\ Step("savefig")
    /\ \E size \in 1..MaxFileSize :
          files' = files \cup {[path |-> png_path, size |-> size]}
    /\ UNCHANGED <<arrays, sp, fig, stdout, stderr, exit, setup>>

\* print('Figure saved as water_line_spectrum.png')
PrintLine ==
    /\ Step("print")
    /\ stdout' = Append(stdout, ConfirmationLine)
    /\ UNCHANGED <<arrays, sp, fig, files, stderr, exit, setup>>

\* main() returns and the interpreter exits
Return ==
    /\ pc = "return"
    /\ pc' = "done"
    /\ exit' = 0
    /\ UNCHANGED <<arrays, sp, fig, files, stdout, stderr, trace, failedAt, setup>>

\* The library call of the statement at pc raises: nothing catches it, the
\* interpreter prints the traceback and exits with status 1.  A savefig that
\* fails may leave the file behind, possibly empty.
Raise ==
    /\ pc \in {Program[i] : i \in 1..Len(Program)}
    /\ pc' = Propagate(pc)
    /\ failedAt' = pc
    /\ stderr' = Append(stderr, "Traceback")
    /\ exit' = 1
    /\ \/ files' = files
       \/ /\ pc = "savefig"
          /\ \E size \in 0..MaxFileSize :
                files' = files \cup {[path |-> png_path, size |-> size]}
    /\ UNCHANGED <<arrays, sp, fig, stdout, trace, setup>>

\* what a run leaves for comparison with the next runs
Record ==
    [run |-> run, cfg |-> cfg, wavelength |-> wavelength, noise |-> noise, flux |-> flux]

\* The script is run again, possibly with other literals.
Rerun ==
    /\ pc \in {"done", "failed"}
    /\ run < MaxRuns
    /\ run' = run + 1
    /\ cfg' \in Configs
    /\ previous' = IF flux = <<>> THEN previous ELSE <<Record>>
    /\ pc' = Program[1]
    /\ wavelength' = <<>> /\ continuum' = <<>> /\ line_profile' = <<>>
    /\ noise' = <<>> /\ flux' = <<>>
    /\ sp' = <<>> /\ fig' = <<>>
    /\ files' = {} /\ stdout' = <<>> /\ stderr' = <<>>
    /\ exit' = -1 /\ trace' = <<>> /\ failedAt' = "none"
    /\ UNCHANGED gen

Next ==
    \/ AxisGen \/ FluxSynth \/ Wrap \/ Plot \/ Labels \/ Title \/ AxVLine
    \/ Annotate \/ Legend \/ Grid \/ TightLayout \/ SaveFig \/ PrintLine
    \/ Return \/ Raise \/ Rerun

Spec == Init /\ [][Next]_vars

(* ============================ properties ============================== *)
\* the runs under comparison: the last earlier one that reached the flux
\* synthesis, and this one once it has
Runs ==
    {previous[i] : i \in 1..Len(previous)} \cup (IF flux = <<>> THEN {} ELSE {Record})

Canon ==
    <<"linspace", "flux", "spectrum", "plot", "labels", "title", "axvline",
      "annotate", "legend", "grid", "tight_layout", "savefig", "print">>

FigOps == [k \in 1..Len(fig) |-> fig[k].op]

\* C1: any two runs with seed 12345 and the same literals have the same noise,
\* the same axis and the same flux, element by element.
DeterminismC1 ==
    \A a, b \in Runs :
        (a.cfg.seed = 12345 /\ a.cfg = b.cfg)
            => /\ a.noise = b.noise
               /\ a.wavelength = b.wavelength
               /\ a.flux = b.flux

\* two runs of the script as written
WitnessC1 ==
    \E a, b \in Runs : a.cfg = AsIs /\ b.cfg = AsIs /\ a.run # b.run

\* C2: the axis has 500 points, starts at 10.0, ends at 30.0, is evenly
\* spaced and strictly increasing.
AxisC2 ==
    wavelength # <<>> =>
        /\ Len(wavelength) = 500
        /\ wavelength[1] = 10 * WDen
        /\ wavelength[500] = 30 * WDen
        /\ \A i \in 1..499 :
              /\ wavelength[i] < wavelength[i + 1]
              /\ wavelength[i + 1] - wavelength[i] = wavelength[2] - wavelength[1]

WitnessC2 == pc = "flux" /\ Len(wavelength) = 500

\* C3: a run in which nothing raised ends with exactly one file written,
\* water_line_spectrum.png, of non-zero size, and exactly one line printed,
\* which contains that filename.
OutputC3 ==
    pc = "done" =>
        /\ \E f \in files :
              files = {f} /\ f.path = "water_line_spectrum.png" /\ f.size > 0
        /\ Len(stdout) = 1
        /\ \E k \in 1..Len(stdout[1]) : stdout[1][k] = "water_line_spectrum.png"

WitnessC3 == pc = "done" /\ failedAt = "none" /\ files # {}

\* C4: without a raise the exit status is 0; a raise at any statement ends
\* the run there with a non-zero status and a traceback, no later statement
\* runs, none is retried, and nothing was printed if the raise came at or
\* before the file write.
ExitStateC4 ==
    /\ pc = "done" => (exit = 0 /\ failedAt = "none" /\ stderr = <<>>)
    /\ exit = 0 => failedAt = "none"
    /\ failedAt # "none" =>
          /\ pc = "failed"
          /\ exit > 0
          /\ stderr # <<>>
          /\ \E k \in 1..13 :
                /\ Canon[k] = failedAt
                /\ trace = SubSeq(Canon, 1, k - 1)
                /\ (k <= 12 => stdout = <<>>)

ExitC4 == []ExitStateC4 /\ [][pc = "failed" => run' # run]_vars

WitnessC4 == pc = "failed" /\ failedAt = "savefig" /\ exit = 1

\* C6: a run with another seed has the same axis as the run with seed 12345
\* and a flux that differs from it in at least one sample.
ReseedC6 ==
    \A a, b \in Runs :
        (a.cfg = AsIs /\ b.cfg.seed # 12345 /\ b.cfg = [AsIs EXCEPT !.seed = b.cfg.seed])
            => /\ a.wavelength = b.wavelength
               /\ \E i \in 1..500 : a.flux[i] # b.flux[i]

WitnessC6 ==
    \E a, b \in Runs : a.cfg = AsIs /\ b.cfg = [AsIs EXCEPT !.seed = 12346]

PointwiseC8 ==
    flux # <<>> =>
        /\ Len(wavelength) = 500 /\ Len(flux) = 500 /\ Len(continuum) = 500
        /\ Len(line_profile) = 500 /\ Len(noise) = 500
        /\ \A i \in 1..500 :
              /\ flux[i] = continuum[i] + line_profile[i] + noise[i]
              /\ continuum[i] = ContinuumAt(wavelength[i])
              /\ line_profile[i] = LineProfileAt(cfg.ampl_c, wavelength[i])
              /\ noise[i] = NoiseAt(cfg.noise_c, Stream(gen[cfg.seed], i))

WitnessC8 == pc = "spectrum" /\ cfg = AsIs /\ Len(flux) = 500

\* C9: the statements run at most once each and in program order; the legend
\* is made after the spectrum and the marker exist and lists both; the file
\* is written after every decoration; the line is printed after the file is
\* written; figure, axis and flux do not change after the file write.
OrderStateC9 ==
    /\ Len(trace) <= 13
    /\ trace = SubSeq(Canon, 1, Len(trace))
    /\ \A k \in 1..Len(fig) :
          fig[k].op = "legend" =>
              /\ fig[k].at = {"Synthetic spectrum", "H2O rotational line (17.22 um)"}
              /\ \E i, j \in 1..(k - 1) : fig[i].op = "plot" /\ fig[j].op = "axvline"
    /\ files # {} =>
          FigOps = <<"plot", "labels", "title", "axvline", "annotate", "legend",
                     "grid", "tight_layout">>
    /\ stdout # <<>> =>
          \E f \in files : f.path = "water_line_spectrum.png" /\ f.size > 0

OrderC9 ==
    /\ []OrderStateC9
    /\ [][(files # {} /\ run' = run)
            => (fig' = fig /\ wavelength' = wavelength /\ flux' = flux)]_vars

WitnessC9 == pc = "done" /\ Len(trace) = 13 /\ stdout # <<>>

\* C10: the annotation is placed from the maximum M of all 500 flux samples,
\* arrow tip at (17.22, 0.9 M) and text at (18.22, 0.95 M); without noise
\* that maximum is at index 180, the sample nearest 17.22, and only there,
\* above the 1.2 the continuum reaches at the long-wavelength end.
PeakC10 ==
    \A k \in 1..Len(fig) :
        fig[k].op = "annotate" =>
            /\ \A i \in 1..500 : 90 * flux[i] <= fig[k].at[2]
            /\ \E m \in 1..500 :
                  fig[k].at = <<1722, 90 * flux[m], 1822, 95 * flux[m]>>
            /\ (cfg.noise_c = 0 /\ cfg.ampl_c = 30) =>
                  /\ fig[k].at[2] = 90 * flux[181]
                  /\ \A i \in 1..500 :
                        /\ Abs(100 * wavelength[181] - 1722 * WDen)
                              <= Abs(100 * wavelength[i] - 1722 * WDen)
                        /\ i # 181 => flux[i] < flux[181]
                  /\ 10 * flux[500] = 12 * FDen

WitnessC10 ==
    /\ pc = "legend" /\ cfg.noise_c = 0 /\ cfg.ampl_c = 30
    /\ fig[Len(fig)].op = "annotate"

====
